---- MODULE Spec2Model ----
(***************************************************************************)
(* GeneOntologyProvider (rcsb.utils.go): a read-only query layer over the  *)
(* Gene Ontology held as a networkx MultiDiGraph whose edges point from    *)
(* the more specific term (child) to the more general term (parent).       *)
(*                                                                         *)
(* Term ids are modelled as the integers 1..MaxId (GO ids are fixed-width  *)
(* strings "GO:nnnnnnn", whose lexicographic order is their numeric        *)
(* order).  Python's None is the string "None".                            *)
(***************************************************************************)
EXTENDS Integers, Sequences, FiniteSets, TLC

\* ---------------------------------------------------------------- bounds
MaxId == 3
MaxEdges == 2
MaxSeeds == 2

\* ------------------------------------------------------- program constants
\* testCache: len(self.__goGraph) > 40000
MinNodeCount == 40000

Ids == 1..MaxId
None == "None"

VARIABLES
  goGraph,    \* self.__goGraph: the graph the engine holds (NoGraph for None)
  iterOrder,  \* the order in which this process iterates a Python set
  call,       \* the last operation called, with its arguments
  ret,        \* what that operation returned
  file,       \* the local file oboFilePath (NoFile when it does not exist)
  remote,     \* what urlTarget serves
  load,       \* what the last run of __reload did
  bfs         \* the traversal in progress inside networkx.descendants

vars == <<goGraph, iterOrder, call, ret, file, remote, load, bfs>>

\* ---------------------------------------------------------- Python values
\* sorted(S) and its reverse, for a set of ids
sorted(S) == SelectSeq([i \in 1..MaxId |-> i], LAMBDA n : n \in S)

reversed(S) == SelectSeq([i \in 1..MaxId |-> MaxId + 1 - i], LAMBDA n : n \in S)

\* iteration over a set (or over the node view): one of two orders, fixed
\* for the process, so that nothing can rest on the order being sorted
Iterate(S, ord) == IF ord = "asc" THEN sorted(S) ELSE reversed(S)

Range(s) == {s[i] : i \in 1..Len(s)}

SeqsUpTo(S, k) == UNION {[1..n -> S] : n \in 0..k}

\* ------------------------------------------------------------- the graph
\* A MultiDiGraph: nodes, the nodes carrying a "name" attribute, the keyed
\* edges <<child, parent, kind>>, and pad: the number of further terms that
\* have no edge at all and whose ids lie outside Ids (they only count in len).
NoGraph == [isNone |-> TRUE, nodes |-> {}, named |-> {}, edges |-> {}, pad |-> 0]

Graph(nodes, named, edges, pad) ==
  [isNone |-> FALSE, nodes |-> nodes, named |-> named, edges |-> edges, pad |-> pad]

\* the sets of at most k numbers drawn from lo..hi
RECURSIVE Combinations(_, _, _)
Combinations(lo, hi, k) ==
  IF k = 0 \/ lo > hi THEN {{}}
  ELSE {{}} \cup UNION { { {i} \cup c : c \in Combinations(i + 1, hi, k - 1) } : i \in lo..hi }

KindSeq == <<"is_a", "part_of">>

\* the i-th edge that can be drawn between the nodes of the sequence sn
EdgeAt(sn, i) ==
  LET n == Len(sn)
      k == Len(KindSeq)
  IN  <<sn[(i \div (n * k)) + 1], sn[((i \div k) % n) + 1], KindSeq[(i % k) + 1]>>

EdgeSets(ns) ==
  LET sn == sorted(ns)
      last == Cardinality(ns) * Cardinality(ns) * Len(KindSeq) - 1
  IN  { {EdgeAt(sn, i) : i \in c} : c \in Combinations(0, last, MaxEdges) }

\* the terms of a parse that carry no name: at most one within the bounds
\* (obonet creates the parent of an edge as a bare node when no stanza
\* declares it)
Unnamed(ns) == {{}} \cup {{n} : n \in ns}

\* len(G)
NumberOfNodes(g) == Cardinality(g.nodes) + g.pad

NameOf(n) == "name" \o ToString(n)

\* ------------------------------------------------------ networkx, on a graph
\* Each primitive raises (NetworkXError, KeyError, or TypeError/AttributeError
\* on None) exactly where its ...Raises predicate holds.
hasNodeRaises(g) == g.isNone

nodeMissing(g, n) == g.isNone \/ n \notin g.nodes

\* G.successors(n): the distinct parents of n
successors(g, n) == {e[2] : e \in {d \in g.edges : d[1] = n}}

\* G.predecessors(n): the distinct children of n
predecessors(g, n) == {e[1] : e \in {d \in g.edges : d[2] = n}}

\* G.out_edges(n, keys=True): adjacency order, parent by parent

RECURSIVE flatten(_)
flatten(ss) == IF ss = <<>> THEN <<>> ELSE Head(ss) \o flatten(Tail(ss))

SelectEdges(g, n, p) ==
  SelectSeq([i \in 1..Len(KindSeq) |-> <<n, p, KindSeq[i]>>], LAMBDA e : e \in g.edges)

out_edges(g, n, ord) ==
  LET ps == Iterate(successors(g, n), ord)
  IN  flatten([i \in 1..Len(ps) |-> SelectEdges(g, n, ps[i])])

\* G.out_degree(): edges are counted with their multiplicity
out_degree(g, n) == Cardinality({e \in g.edges : e[1] = n})

\* a faulty variant: the neighbours are queued without looking at the visited set
unvisitedAll(g, n, visited) == successors(g, n)

\* the neighbours of n that the traversal has not seen yet
unvisited(g, n, visited) == successors(g, n) \ visited

\* networkx.descendants(G, source): breadth-first over successors with a
\* visited set, the source itself never reported
RECURSIVE bfs_layers(_, _, _)
bfs_layers(g, frontier, visited) ==
  IF frontier = {} THEN visited
  ELSE LET next == UNION {unvisited(g, n, visited) : n \in frontier}
       IN  bfs_layers(g, next, visited \cup next)

\* a faulty variant: the traversal follows the edges backwards, parent -> child
reverse(g) == [g EXCEPT !.edges = {<<e[2], e[1], e[3]>> : e \in g.edges}]

descendantsReversed(g, source) ==
  bfs_layers(reverse(g), {source}, {source}) \ {source}

descendants(g, source) == bfs_layers(g, {source}, {source}) \ {source}

\* networkx.is_directed_acyclic_graph(G)
is_directed_acyclic_graph(g) == \A n \in g.nodes : \A p \in successors(g, n) :
                                   n \notin bfs_layers(g, {p}, {p})

\* ------------------------------------------------- GeneOntologyProvider
\* a faulty variant: the node count is compared with >=
testCacheAtLeast(g) ==
  IF ~g.isNone /\ NumberOfNodes(g) > 0
  THEN is_directed_acyclic_graph(g) /\ NumberOfNodes(g) >= MinNodeCount
  ELSE FALSE

\* testCache: bool(graph) is len(graph) > 0
testCache(g) ==
  IF ~g.isNone /\ NumberOfNodes(g) > 0
  THEN is_directed_acyclic_graph(g) /\ NumberOfNodes(g) > MinNodeCount
  ELSE FALSE

exists(g, goId) == IF hasNodeRaises(g) THEN FALSE ELSE goId \in g.nodes

\* a Python mapping returned to the caller: the attribute dict of a node
\* ("attributes"), the adjacency view of a node ("adjacency"), or None
Mapping(kind, name, adj) == [kind |-> kind, name |-> name, adj |-> adj]

\* self.__goGraph[goId] is the adjacency view {parent: {kind: {}}}
getNode(g, goId) ==
  IF nodeMissing(g, goId) THEN Mapping(None, None, {})
  ELSE Mapping("adjacency", None, {<<e[2], e[3]>> : e \in {d \in g.edges : d[1] = goId}})

getRootNodes(g, ord) ==
  IF g.isNone THEN None
  ELSE Iterate({n \in g.nodes : out_degree(g, n) = 0}, ord)

\* a faulty variant: the name is looked up without the KeyError being turned into None
getNameUnguarded(g, goId) ==
  IF g.isNone THEN None ELSE NameOf(goId)

getName(g, goId) ==
  IF nodeMissing(g, goId) \/ goId \notin g.named THEN None ELSE NameOf(goId)

getAdjacentParents(g, goId, ord) ==
  IF nodeMissing(g, goId) THEN <<>> ELSE out_edges(g, goId, ord)

getPredecessors(g, goId, ord) ==
  IF nodeMissing(g, goId) THEN <<>> ELSE Iterate(predecessors(g, goId), ord)

getSuccessors(g, goId, ord) ==
  IF nodeMissing(g, goId) THEN <<>> ELSE Iterate(successors(g, goId), ord)

WithNames(g, ids) == [i \in 1..Len(ids) |-> <<ids[i], getName(g, ids[i])>>]

getDescendants(g, goId, includeSelf, ord) ==
  LET linL == IF includeSelf THEN <<<<goId, getName(g, goId)>>>> ELSE <<>>
  IN  IF nodeMissing(g, goId) THEN linL
      ELSE linL \o WithNames(g, Iterate(descendants(g, goId), ord))

\* the first loop of getUniqueDescendants: the set built, or the exception
RECURSIVE collect(_, _, _, _)
collect(g, goIdL, includeSelf, ndS) ==
  IF goIdL = <<>> THEN [raised |-> FALSE, ndS |-> ndS]
  ELSE LET goId == Head(goIdL)
           withSelf == IF includeSelf THEN ndS \cup {goId} ELSE ndS
       IN  IF nodeMissing(g, goId) THEN [raised |-> TRUE, ndS |-> withSelf]
           ELSE collect(g, Tail(goIdL), includeSelf, withSelf \cup descendants(g, goId))

getUniqueDescendants(g, goIdL, includeSelf) ==
  LET c == collect(g, goIdL, includeSelf, {})
  IN  IF c.raised THEN <<>> ELSE WithNames(g, sorted(c.ndS))

getFullNodeList(g, ord) == IF g.isNone THEN None ELSE Iterate(g.nodes, ord)

\* a faulty variant: each parent is listed once, parallel edges merged
TreeNodeMerged(g, nd, ord) ==
  LET pIdL == getSuccessors(g, nd, ord)
  IN  [id |-> nd, name |-> getName(g, nd), hasParents |-> pIdL # <<>>, parents |-> pIdL]

\* a record of the export; "parents" is left out when hasParents is FALSE
TreeNode(g, nd, ord) ==
  LET tupL == getAdjacentParents(g, nd, ord)
      pIdL == [i \in 1..Len(tupL) |-> tupL[i][2]]
  IN  [id |-> nd, name |-> getName(g, nd), hasParents |-> pIdL # <<>>, parents |-> pIdL]

\* a faulty variant: the seeds alone, their lineage not expanded
closureOfSeedsOnly(g, goIdL, ndS) ==
  ndS \cup {goIdL[i] : i \in {j \in 1..Len(goIdL) : exists(g, goIdL[j])}}

\* the closure loop of exportTreeNodeList over the seed list goIdL
RECURSIVE closure(_, _, _)
closure(g, goIdL, ndS) ==
  IF goIdL = <<>> THEN ndS
  ELSE LET goId == Head(goIdL)
       IN  IF ~exists(g, goId) THEN closure(g, Tail(goIdL), ndS)
           ELSE closure(g, Tail(goIdL), ndS \cup {goId} \cup descendants(g, goId))

\* filterL is None when hasFilter is FALSE; len(None) raises when no graph is held
exportTreeNodeList(g, hasFilter, filterL, ord) ==
  IF g.isNone THEN <<>>
  ELSE LET full == getFullNodeList(g, ord)
           goIdL == IF hasFilter /\ filterL # {}
                    THEN SelectSeq(full, LAMBDA gId : gId \in filterL)
                    ELSE full
           ndL == Iterate(closure(g, goIdL, {}), ord)
       IN  [i \in 1..Len(ndL) |-> TreeNode(g, ndL[i], ord)]

\* ------------------------------------------------------------- the load
\* An OBO file: its term stanzas, each with an id, an optional name and typed
\* parents, and pad further stanzas of terms without any relationship.
NoFile == [present |-> FALSE, stanzas |-> <<>>, pad |-> 0]

Stanza(id, named, parents) == [id |-> id, named |-> named, parents |-> parents]

OboFile(stanzas, pad) == [present |-> TRUE, stanzas |-> stanzas, pad |-> pad]

\* obonet.read_obo: a node per stanza, an edge per typed parent; add_edge
\* creates a parent no stanza declares as a node without attributes
read_obo(f) ==
  LET idx == 1..Len(f.stanzas)
      edges == UNION { { <<f.stanzas[i].id, p[2], p[1]>> : p \in f.stanzas[i].parents } : i \in idx }
      declared == {f.stanzas[i].id : i \in idx}
  IN  Graph(declared \cup {e[2] : e \in edges},
            {f.stanzas[i].id : i \in {j \in idx : f.stanzas[j].named}},
            edges, f.pad)

\* a faulty variant: the cached file is used whenever it is there, useCache or not
reloadKeepsCache(f, rem, useCache, ok) ==
  IF f.present
  THEN [goGraph |-> read_obo(f), file |-> f, fetched |-> FALSE, atFetch |-> f]
  ELSE IF ok
       THEN [goGraph |-> read_obo(rem), file |-> rem, fetched |-> TRUE, atFetch |-> f]
       ELSE [goGraph |-> NoGraph, file |-> f, fetched |-> TRUE, atFetch |-> f]

\* __reload on the local file f with rem served at urlTarget; ok is what
\* FileUtil.get returns: on success the local file is the content served, on
\* failure no file is written.  atFetch is the local file as get finds it.
reload(f, rem, useCache, ok) ==
  LET removed == IF ~useCache THEN NoFile ELSE f
  IN  IF useCache /\ removed.present
      THEN [goGraph |-> read_obo(removed), file |-> removed, fetched |-> FALSE, atFetch |-> removed]
      ELSE IF ok
           THEN [goGraph |-> read_obo(rem), file |-> rem, fetched |-> TRUE, atFetch |-> removed]
           ELSE [goGraph |-> NoGraph, file |-> removed, fetched |-> TRUE, atFetch |-> removed]

\* ------------------------------------------------------------ the queries
NoLoad == [done |-> FALSE]
NoBfs == [phase |-> "idle", op |-> None, includeSelf |-> FALSE, goIdL |-> <<>>,
          ndS |-> {}, raised |-> FALSE, source |-> 0, queue |-> <<>>,
          visited |-> {}, expanded |-> <<>>, seeds |-> 0, steps |-> 0]

Idle == /\ file = NoFile
        /\ remote = NoFile
        /\ load = NoLoad
        /\ bfs = NoBfs

\* the engine after construction: __reload returned None or a parsed graph
Init ==
  /\ \/ goGraph = NoGraph
     \/ \E ns \in SUBSET Ids : \E un \in Unnamed(ns) : \E es \in EdgeSets(ns) :
          goGraph = Graph(ns, ns \ un, es, 0)
  /\ iterOrder \in {"asc", "desc"}
  /\ call = [op |-> "__init__"]
  /\ ret = None
  /\ Idle

\* A query reads the graph and changes nothing of the engine, so a behaviour
\* is one construction followed by one call: a later call would run in the
\* same engine state.
Fresh == call.op = "__init__"

Returns(c, r) ==
  /\ call' = c
  /\ ret' = r
  /\ UNCHANGED <<goGraph, iterOrder, file, remote, load, bfs>>

Exists ==
  /\ Fresh
  /\ \E goId \in Ids :
       Returns([op |-> "exists", goId |-> goId], exists(goGraph, goId))

GetNode ==
  /\ Fresh
  /\ \E goId \in Ids :
       Returns([op |-> "getNode", goId |-> goId], getNode(goGraph, goId))

GetRootNodes ==
  /\ Fresh
  /\ Returns([op |-> "getRootNodes"], getRootNodes(goGraph, iterOrder))

GetName ==
  /\ Fresh
  /\ \E goId \in Ids :
       Returns([op |-> "getName", goId |-> goId], getName(goGraph, goId))

GetAdjacentParents ==
  /\ Fresh
  /\ \E goId \in Ids :
       Returns([op |-> "getAdjacentParents", goId |-> goId],
            getAdjacentParents(goGraph, goId, iterOrder))

GetPredecessors ==
  /\ Fresh
  /\ \E goId \in Ids :
       Returns([op |-> "getPredecessors", goId |-> goId],
            getPredecessors(goGraph, goId, iterOrder))

GetSuccessors ==
  /\ Fresh
  /\ \E goId \in Ids :
       Returns([op |-> "getSuccessors", goId |-> goId],
            getSuccessors(goGraph, goId, iterOrder))

GetDescendants ==
  /\ Fresh
  /\ \E goId \in Ids, includeSelf \in BOOLEAN :
       Returns([op |-> "getDescendants", goId |-> goId, includeSelf |-> includeSelf],
            getDescendants(goGraph, goId, includeSelf, iterOrder))

GetFullNodeList ==
  /\ Fresh
  /\ Returns([op |-> "getFullNodeList"], getFullNodeList(goGraph, iterOrder))

\* exportTreeNodeList(): filterL keeps its default, None
ExportTreeNodeList ==
  /\ Fresh
  /\ Returns([op |-> "exportTreeNodeList", hasFilter |-> FALSE, filterL |-> {}],
             exportTreeNodeList(goGraph, FALSE, {}, iterOrder))

\* exportTreeNodeList(filterL=[...]): any list of ids, the empty one included
ExportTreeNodeListFiltered ==
  /\ Fresh
  /\ \E filterL \in SUBSET Ids :
       Returns([op |-> "exportTreeNodeList", hasFilter |-> TRUE, filterL |-> filterL],
               exportTreeNodeList(goGraph, TRUE, filterL, iterOrder))

\* the lineage of one term, and the export of the whole graph
Next ==
  \/ GetDescendants
  \/ GetFullNodeList
  \/ ExportTreeNodeList

Spec == Init /\ [][Next]_vars

\* the export of the lineage of a list of terms
NextExport ==
  \/ ExportTreeNodeListFiltered
  \/ GetFullNodeList

\* which terms an export holds does not depend on their names: here every
\* term has one
InitExport ==
  /\ \/ goGraph = NoGraph
     \/ \E ns \in SUBSET Ids : \E es \in EdgeSets(ns) :
          goGraph = Graph(ns, ns, es, 0)
  /\ iterOrder \in {"asc", "desc"}
  /\ call = [op |-> "__init__"]
  /\ ret = None
  /\ Idle

SpecExport == InitExport /\ [][NextExport]_vars

\* the single-term lookups
NextLookup ==
  \/ Exists
  \/ GetNode
  \/ GetRootNodes
  \/ GetName
  \/ GetAdjacentParents
  \/ GetPredecessors
  \/ GetSuccessors

SpecLookup == Init /\ [][NextLookup]_vars

\* the multi-seed query, over seed lists of up to MaxSeeds ids
GetUniqueDescendants ==
  /\ Fresh
  /\ \E goIdL \in SeqsUpTo(Ids, MaxSeeds), includeSelf \in BOOLEAN :
       Returns([op |-> "getUniqueDescendants", goIdL |-> goIdL, includeSelf |-> includeSelf],
            getUniqueDescendants(goGraph, goIdL, includeSelf))

NextUnique ==
  \/ GetUniqueDescendants
  \/ GetDescendants

SpecUnique == Init /\ [][NextUnique]_vars

\* ------------------------------------------------------------ properties
\* Reachability stated without a traversal: the terms that lie in every set
\* that holds the direct neighbours of x and is closed under taking them.
Above(g, x) ==
  LET closed == {S \in SUBSET g.nodes :
                   successors(g, x) \subseteq S /\ \A n \in S : successors(g, n) \subseteq S}
  IN  {n \in g.nodes : \A S \in closed : n \in S}

Below(g, x) ==
  LET closed == {S \in SUBSET g.nodes :
                   predecessors(g, x) \subseteq S /\ \A n \in S : predecessors(g, n) \subseteq S}
  IN  {n \in g.nodes : \A S \in closed : n \in S}

\* the "name" attribute of a term of the graph
NameAttr(g, n) == IF n \in g.named THEN NameOf(n) ELSE None

FirstOf(pairs) == [i \in 1..Len(pairs) |-> pairs[i][1]]

Count(s, x) == Cardinality({i \in 1..Len(s) : s[i] = x})

\* ret lists x first when asked to, then exactly the terms of reached, each
\* once and each with its name
ListsLineage(g, x, includeSelf, reached) ==
  LET ids == FirstOf(ret)
      rest == IF includeSelf THEN Tail(ret) ELSE ret
  IN  /\ includeSelf => Len(ret) >= 1 /\ ret[1] = <<x, NameAttr(g, x)>>
      /\ Count(ids, x) = (IF includeSelf THEN 1 ELSE 0)
      /\ Range(FirstOf(rest)) = reached \ {x}
      /\ Len(rest) = Cardinality(reached \ {x})
      /\ \A i \in 1..Len(ret) : ret[i][2] = NameAttr(g, ret[i][1])

OnTermOfGraph ==
  /\ call.op = "getDescendants"
  /\ ~goGraph.isNone
  /\ call.goId \in goGraph.nodes

\* C1 as stated: getDescendants(x, includeSelf) on a term x of the graph lists
\* exactly the terms reachable from x in the predecessor direction (the more
\* specific terms below x), each once with its name, x first and once when
\* includeSelf, and not at all otherwise.
C1_PredecessorDirection ==
  OnTermOfGraph =>
    ListsLineage(goGraph, call.goId, call.includeSelf, Below(goGraph, call.goId))

\* C1 amended: getDescendants(x, includeSelf) on a term x of the graph lists
\* exactly the terms other than x reachable from x in the successor direction
\* (child -> parent: the more general terms above x), each once with its name,
\* x first and once when includeSelf, and not at all otherwise.
C1_SuccessorDirection ==
  OnTermOfGraph =>
    ListsLineage(goGraph, call.goId, call.includeSelf, Above(goGraph, call.goId))

\* a term with a grandparent that is not its parent, and with a child
C1_Witness ==
  /\ OnTermOfGraph
  /\ call.includeSelf
  /\ Len(ret) = 3
  /\ Cardinality(successors(goGraph, call.goId)) = 1
  /\ ret[1][1] = call.goId

\* ---- getDescendants and getUniqueDescendants on ids absent from the graph
OnAbsentId ==
  /\ call.op = "getDescendants"
  /\ ~exists(goGraph, call.goId)

OnAbsentSeed ==
  /\ call.op = "getUniqueDescendants"
  /\ call.goIdL # <<>>
  /\ \A i \in 1..Len(call.goIdL) : ~exists(goGraph, call.goIdL[i])

\* C9: for an id absent from the graph, getDescendants(x, includeSelf) and
\* getUniqueDescendants([x], includeSelf) return an empty sequence, whatever
\* includeSelf is.
C9_AbsentIdYieldsEmpty ==
  (OnAbsentId \/ OnAbsentSeed) => ret = <<>>

\* C2: getUniqueDescendants(S, includeSelf) is sorted ascending by id, holds
\* no id twice, and its (id, name) pairs are the union of those of
\* getDescendants(s, includeSelf) over the seeds s of S.
IsSortedById(pairs) ==
  \A i \in 1..Len(pairs), j \in 1..Len(pairs) : i < j => pairs[i][1] < pairs[j][1]

UnionOfDescendants(g, goIdL, includeSelf, ord) ==
  UNION {Range(getDescendants(g, goIdL[i], includeSelf, ord)) : i \in 1..Len(goIdL)}

C2_UniqueIsUnionOfDescendants ==
  call.op = "getUniqueDescendants" =>
    /\ IsSortedById(ret)
    /\ Range(ret) = UnionOfDescendants(goGraph, call.goIdL, call.includeSelf, iterOrder)

\* ------------------------------------------------- lookups of unknown ids
OnUnknownId ==
  /\ call.op \in {"getName", "getAdjacentParents", "getPredecessors", "getSuccessors"}
  /\ exists(goGraph, call.goId) = FALSE

\* C3: in every engine state, for an id x with exists(x) = false, getName(x)
\* is absent and getAdjacentParents(x), getPredecessors(x), getSuccessors(x)
\* are empty sequences; exists itself answers false when no graph is held.
C3_UnknownIdYieldsAbsent ==
  /\ OnUnknownId => ret = (IF call.op = "getName" THEN None ELSE <<>>)
  /\ (call.op = "exists" /\ (goGraph.isNone \/ call.goId \notin goGraph.nodes)) => ret = FALSE
  /\ (call.op = "exists" /\ ~goGraph.isNone /\ call.goId \in goGraph.nodes) => ret = TRUE

\* an unknown id looked up in a graph that has edges, and in an engine
\* holding no graph
C3_Witness ==
  /\ OnUnknownId
  /\ call.op = "getName"
  /\ ~goGraph.isNone
  /\ goGraph.edges # {}

\* C8: getNode(x) on a term x of the graph is the term's attribute mapping,
\* whose "name" entry is getName(x); on any other id, and when no graph is
\* held, it is absent.
C8_NodeIsAttributeMapping ==
  call.op = "getNode" =>
    IF ~goGraph.isNone /\ call.goId \in goGraph.nodes
    THEN ret.kind = "attributes" /\ ret.name = NameAttr(goGraph, call.goId)
    ELSE ret.kind = None

\* ---------------------------------------------------------- the export
RecordIds(trL) == [i \in 1..Len(trL) |-> trL[i].id]

\* trL holds exactly one record for each id of ids
OneRecordEach(trL, ids) ==
  /\ Range(RecordIds(trL)) = ids
  /\ Len(trL) = Cardinality(ids)

\* R is the least set that holds the seeds and, with a term, its parents
IsClosureAbove(g, seeds, R) ==
  LET closed(S) == seeds \subseteq S /\ \A n \in S : successors(g, n) \subseteq S
  IN  closed(R) /\ \A S \in SUBSET R : closed(S) => S = R

\* R is the least set that holds the seeds and, with a term, its children
IsClosureBelow(g, seeds, R) ==
  LET closed(S) == seeds \subseteq S /\ \A n \in S : predecessors(g, n) \subseteq S
  IN  closed(R) /\ \A S \in SUBSET R : closed(S) => S = R

\* trL holds one record per id, no id twice
OneRecordPerId(trL) == Len(trL) = Cardinality(Range(RecordIds(trL)))

OnFilteredExport ==
  /\ call.op = "exportTreeNodeList"
  /\ call.hasFilter
  /\ ~goGraph.isNone

\* C4 as stated: exportTreeNodeList(filter), for any filter supplied (the
\* empty one included), takes filter /\ full node list as its seeds and
\* returns one record per node of their closure in the predecessor
\* direction (seeds plus their more specific descendants).
C4_FilterClosureBelow ==
  OnFilteredExport =>
    /\ OneRecordPerId(ret)
    /\ IsClosureBelow(goGraph, call.filterL \cap goGraph.nodes, Range(RecordIds(ret)))

\* C4 amended: exportTreeNodeList(filter) with a non-empty filter takes
\* filter /\ full node list as its seeds, and with an empty filter takes the
\* full node list (as when no filter is given); it returns one record per
\* node of the closure of the seeds in the successor direction (each seed
\* plus the more general terms above it); filter ids absent from the graph
\* add no record.
C4_FilterClosureAbove ==
  OnFilteredExport =>
    LET seeds == IF call.filterL = {} THEN goGraph.nodes
                 ELSE call.filterL \cap goGraph.nodes
    IN  /\ OneRecordPerId(ret)
        /\ IsClosureAbove(goGraph, seeds, Range(RecordIds(ret)))

\* a filter with an id of the graph and an id absent from it, whose closure
\* holds a term that is not a seed
C4_Witness ==
  /\ OnFilteredExport
  /\ call.filterL \cap goGraph.nodes # {}
  /\ call.filterL \ goGraph.nodes # {}
  /\ Range(RecordIds(ret)) \ call.filterL # {}

\* C5: on a loaded graph, exportTreeNodeList() without a filter returns one
\* record for every id of getFullNodeList() and none for any other id; the
\* name of a record is getName(id), its parents are the parent ids of
\* getAdjacentParents(id) (one per edge), and parents is left out exactly
\* when the node has no outgoing edge.
C5_FullExport ==
  (call.op = "exportTreeNodeList" /\ ~call.hasFilter /\ ~goGraph.isNone) =>
    /\ OneRecordEach(ret, Range(getFullNodeList(goGraph, iterOrder)))
    /\ \A i \in 1..Len(ret) :
         LET r == ret[i]
             tupL == getAdjacentParents(goGraph, r.id, iterOrder)
         IN  /\ r.name = NameAttr(goGraph, r.id)
             /\ r.parents = [j \in 1..Len(tupL) |-> tupL[j][2]]
             /\ Len(r.parents) = Cardinality({e \in goGraph.edges : e[1] = r.id})
             /\ Range(r.parents) = {e[2] : e \in {d \in goGraph.edges : d[1] = r.id}}
             /\ r.hasParents <=> (\E e \in goGraph.edges : e[1] = r.id)

\* an unfiltered export with a root, an unnamed term, and a term with two
\* parallel edges to the same parent
C5_Witness ==
  /\ call.op = "exportTreeNodeList" /\ ~call.hasFilter /\ ~goGraph.isNone
  /\ \E i \in 1..Len(ret) : ~ret[i].hasParents
  /\ \E i \in 1..Len(ret) : ret[i].name = None
  /\ \E i \in 1..Len(ret) : Len(ret[i].parents) = 2 /\ ret[i].parents[1] = ret[i].parents[2]

\* --------------------------------------------------- construction and health
\* the ontology files of the load model: an empty file, a chain, a cycle, a
\* self-loop, and a parent that no stanza declares
StanzaLists ==
  { <<>>,
    <<Stanza(1, TRUE, {}), Stanza(2, TRUE, {<<"is_a", 1>>}), Stanza(3, FALSE, {<<"part_of", 2>>})>>,
    <<Stanza(1, TRUE, {<<"is_a", 2>>}), Stanza(2, TRUE, {<<"part_of", 1>>})>>,
    <<Stanza(1, TRUE, {<<"is_a", 1>>}), Stanza(2, TRUE, {})>>,
    <<Stanza(1, TRUE, {<<"is_a", 3>>, <<"part_of", 3>>})>> }

\* node counts around the threshold of testCache
Pads == {0, MinNodeCount - 2, MinNodeCount - 1, MinNodeCount}

Files == {OboFile(st, pad) : st \in StanzaLists, pad \in Pads}

InitLoad ==
  /\ file \in {NoFile} \cup Files
  /\ remote \in Files
  /\ goGraph = NoGraph
  /\ iterOrder = "asc"
  /\ call = [op |-> "none"]
  /\ ret = None
  /\ load = NoLoad
  /\ bfs = NoBfs

\* GeneOntologyProvider(goDirPath=..., useCache=...): a new engine over the
\* same directory replaces the previous one
Construct ==
  \E useCache \in BOOLEAN, ok \in BOOLEAN :
    LET r == reload(file, remote, useCache, ok)
    IN  /\ goGraph' = r.goGraph
        /\ file' = r.file
        /\ load' = [done |-> TRUE, useCache |-> useCache, ok |-> ok,
                    cached |-> file, atFetch |-> r.atFetch, fetched |-> r.fetched]
        /\ call' = [op |-> "__init__"]
        /\ ret' = None
        /\ UNCHANGED <<iterOrder, remote, bfs>>

TestCache ==
  /\ load.done
  /\ call' = [op |-> "testCache"]
  /\ ret' = testCache(goGraph)
  /\ UNCHANGED <<goGraph, iterOrder, file, remote, load, bfs>>

NextLoad ==
  \/ Construct
  \/ TestCache

SpecLoad == InitLoad /\ [][NextLoad]_vars

\* C6: isHealthy() (testCache) is true only if the held graph has no cycle
\* under child -> parent edges and more than 40000 nodes; it is false when the
\* load failed and no graph, or an empty graph, is held.
C6_HealthyOnlyIfAcyclicAndLarge ==
  call.op = "testCache" =>
    /\ ret \in BOOLEAN
    /\ ret = TRUE =>
         /\ ~goGraph.isNone
         /\ \A n \in goGraph.nodes : n \notin Above(goGraph, n)
         /\ NumberOfNodes(goGraph) > MinNodeCount
    /\ (goGraph.isNone \/ NumberOfNodes(goGraph) = 0) => ret = FALSE

\* a healthy engine
C6_Witness ==
  /\ call.op = "testCache"
  /\ ret = TRUE
  /\ goGraph.edges # {}

\* C7: a construction with useCache=false removes the cached file before it
\* fetches and always fetches; one with useCache=true reads the cached file
\* without fetching when it is present and fetches only when it is absent;
\* the graph held is the parse of the whole local file, or absent when the
\* fetch that was needed failed.
C7_CacheAndFetch ==
  load.done =>
    /\ ~load.useCache => load.fetched /\ ~load.atFetch.present
    /\ load.useCache => (load.fetched <=> ~load.cached.present)
    /\ (load.useCache /\ load.cached.present) => file = load.cached
    /\ IF load.fetched /\ ~load.ok
       THEN goGraph = NoGraph
       ELSE /\ file.present
            /\ goGraph = read_obo(file)
            /\ {file.stanzas[i].id : i \in 1..Len(file.stanzas)} \subseteq goGraph.nodes
            /\ NumberOfNodes(goGraph) >= Len(file.stanzas) + file.pad

\* useCache=false over a directory that holds a stale cached file
C7_Witness ==
  /\ load.done
  /\ ~load.useCache
  /\ load.cached.present
  /\ load.cached # remote
  /\ load.ok
  /\ file = remote

\* ------------------------------------------------ the traversal, step by step
\* One call of getDescendants, getUniqueDescendants or exportTreeNodeList:
\* the loop over the seeds, and inside it networkx.descendants as the
\* breadth-first traversal it is, one dequeued node per step.  Edge kinds and
\* names play no part in a traversal: the graphs here have is_a edges and
\* named terms only.
InitTraverse ==
  /\ \E ns \in SUBSET Ids : \E es \in EdgeSets(ns) :
       /\ \A e \in es : e[3] = "is_a"
       /\ goGraph = Graph(ns, ns, es, 0)
  /\ iterOrder \in {"asc", "desc"}
  /\ call = [op |-> "__init__"]
  /\ ret = <<>>
  /\ Idle

Begin(c, goIdL) ==
  /\ call' = c
  /\ bfs' = [NoBfs EXCEPT !.phase = "seeds", !.op = c.op,
                          !.includeSelf = c.includeSelf, !.goIdL = goIdL,
                          !.seeds = Len(goIdL)]
  /\ UNCHANGED <<goGraph, iterOrder, ret, file, remote, load>>

CallGetDescendants ==
  /\ bfs.phase = "idle"
  /\ \E goId \in Ids, includeSelf \in BOOLEAN :
       Begin([op |-> "getDescendants", goId |-> goId, includeSelf |-> includeSelf], <<goId>>)

CallGetUniqueDescendants ==
  /\ bfs.phase = "idle"
  /\ \E goIdL \in SeqsUpTo(Ids, MaxSeeds), includeSelf \in BOOLEAN :
       Begin([op |-> "getUniqueDescendants", goIdL |-> goIdL, includeSelf |-> includeSelf], goIdL)

\* exportTreeNodeList adds every seed to the set: includeSelf is TRUE
CallExportTreeNodeList ==
  /\ bfs.phase = "idle"
  /\ \E hasFilter \in BOOLEAN, filterL \in SUBSET Ids :
       /\ ~hasFilter => filterL = {}
       /\ LET full == getFullNodeList(goGraph, iterOrder)
          IN  Begin([op |-> "exportTreeNodeList", hasFilter |-> hasFilter,
                     filterL |-> filterL, includeSelf |-> TRUE],
                    IF hasFilter /\ filterL # {}
                    THEN SelectSeq(full, LAMBDA gId : gId \in filterL)
                    ELSE full)

\* the head of "for goId in goIdL": the seed is added when asked to, then
\* networkx.descendants starts on it, or raises when it is no node
NextSeed ==
  /\ bfs.phase = "seeds"
  /\ bfs.goIdL # <<>>
  /\ ~bfs.raised
  /\ LET goId == Head(bfs.goIdL)
         withSelf == IF bfs.includeSelf /\ bfs.op # "getDescendants"
                     THEN bfs.ndS \cup {goId} ELSE bfs.ndS
     IN  bfs' = IF nodeMissing(goGraph, goId)
                THEN [bfs EXCEPT !.raised = TRUE, !.ndS = withSelf, !.steps = bfs.steps + 1]
                ELSE [bfs EXCEPT !.phase = "bfs", !.ndS = withSelf, !.source = goId,
                                 !.steps = bfs.steps + 1,
                                 !.queue = <<goId>>, !.visited = {goId},
                                 !.expanded = [n \in goGraph.nodes |-> 0]]
  /\ UNCHANGED <<goGraph, iterOrder, call, ret, file, remote, load>>

\* one node leaves the queue; its neighbours not yet visited enter it
BfsStep ==
  /\ bfs.phase = "bfs"
  /\ bfs.queue # <<>>
  /\ LET n == Head(bfs.queue)
         new == unvisited(goGraph, n, bfs.visited)
     IN  bfs' = [bfs EXCEPT !.queue = Tail(bfs.queue) \o Iterate(new, iterOrder),
                            !.visited = bfs.visited \cup new,
                            !.expanded[n] = bfs.expanded[n] + 1,
                            !.steps = bfs.steps + 1]
  /\ UNCHANGED <<goGraph, iterOrder, call, ret, file, remote, load>>

\* the queue is empty: descendants returns the visited nodes but the source
BfsDone ==
  /\ bfs.phase = "bfs"
  /\ bfs.queue = <<>>
  /\ bfs' = [bfs EXCEPT !.phase = "seeds", !.goIdL = Tail(bfs.goIdL),
                        !.ndS = bfs.ndS \cup (bfs.visited \ {bfs.source}),
                        !.steps = bfs.steps + 1]
  /\ UNCHANGED <<goGraph, iterOrder, call, ret, file, remote, load>>

\* the result is built from the set collected, or the exception is swallowed
Return ==
  /\ bfs.phase = "seeds"
  /\ bfs.goIdL = <<>> \/ bfs.raised
  /\ LET self == IF bfs.includeSelf THEN <<<<call.goId, getName(goGraph, call.goId)>>>> ELSE <<>>
         ndL == Iterate(bfs.ndS, iterOrder)
     IN  ret' = CASE bfs.op = "getDescendants" ->
                       IF bfs.raised THEN self
                       ELSE self \o WithNames(goGraph, ndL)
                  [] bfs.op = "getUniqueDescendants" ->
                       IF bfs.raised THEN <<>>
                       ELSE WithNames(goGraph, sorted(bfs.ndS))
                  [] OTHER ->
                       [i \in 1..Len(ndL) |-> TreeNode(goGraph, ndL[i], iterOrder)]
  /\ bfs' = [bfs EXCEPT !.phase = "returned", !.steps = bfs.steps + 1]
  /\ UNCHANGED <<goGraph, iterOrder, call, file, remote, load>>

NextTraverse ==
  \/ CallGetDescendants
  \/ CallGetUniqueDescendants
  \/ CallExportTreeNodeList
  \/ NextSeed
  \/ BfsStep
  \/ BfsDone
  \/ Return

SpecTraverse == InitTraverse /\ [][NextTraverse]_vars

IdsOf(r) ==
  IF bfs.op = "exportTreeNodeList" THEN RecordIds(r) ELSE FirstOf(r)

NoIdTwice(s) == \A i \in 1..Len(s), j \in 1..Len(s) : s[i] = s[j] => i = j

\* the steps a call may take: per seed, its start, one step per node of the
\* graph and the end of its traversal; then the return
StepBound == bfs.seeds * (Cardinality(goGraph.nodes) + 2) + 1

====
